---------------------------- MODULE Spec2Model ----------------------------
(***************************************************************************)
(* Verification model of the top-camera perception code of CollecteBalle:  *)
(*                                                                         *)
(*   - TerrainBalls (terrain_balls.py): frame-to-frame association of the  *)
(*     detected ball centres with the persistent list of balls;            *)
(*   - TerrainBalls (ball2.py): the earlier variant of that tracker;       *)
(*   - RobotDetector (robot_detector.py): robot pose from two markers.     *)
(*                                                                         *)
(* Image processing (cvtColor, inRange, findContours, minEnclosingCircle)  *)
(* is the environment: a frame is represented by what those calls hand to  *)
(* the code, i.e. the list of integer ball centres, resp. the contours     *)
(* found in each marker mask, together with the frame's time stamp.        *)
(*                                                                         *)
(* Python lists are 0-based, TLA+ sequences 1-based: list index i of the   *)
(* source is index i + 1 here.                                             *)
(***************************************************************************)
EXTENDS Integers, Sequences, FiniteSets, TLC

\* ------------------------------------------------------------------ bounds
\* Largest number of ball centres extracted from one frame.
MaxDet == 2
\* Largest time stamp delivered by the camera.
MaxTime == 1

\* Ball centres the segmentation may report: [int(cx), int(cy)].
\* <<5005, 5>> lies exactly 5000 pixels from <<5, 5>>.
Points == { <<5, 5>>, <<6, 5>>, <<50, 50>>, <<5005, 5>> }

\* All lists of at most MaxDet ball centres (contour order is arbitrary and
\* two contours may share the same integer centre).
CenterLists == UNION { [1..n -> Points] : n \in 0..MaxDet }

\* --------------------------------------------------------------- variables
VARIABLES
    balls,          \* TerrainBalls.balls
    nb_balls,       \* TerrainBalls.nb_balls
    time,           \* TerrainBalls.time
    raised,         \* TRUE once _update has propagated an exception
    stale,          \* TRUE once some update has left a ball without a match
    max_n,          \* largest n = len(ball_centers) of the frames so far
    observed,       \* TRUE when the four variables below describe the last _update
    prev,           \* self.balls on entry of that _detect_balls
    frame,          \* ball_centers of that frame as extracted (line 42)
    ks,             \* values returned by _find_match in its matching loop
    pool            \* ball_centers when its matching loop was left

ballVars == <<balls, nb_balls, time, raised, stale, max_n, observed, prev, frame,
              ks, pool>>

\* ------------------------------------------------------------------- Ball
\* Ball(id, timeStamp, X)
Ball(id, timeStamp, X) ==
    [time0 |-> timeStamp, elapsedTime |-> 0, score |-> 0,
     position |-> X, id |-> id]

\* Ball.set_position(X)
set_position(b, X) == [b EXCEPT !.position = X]

\* Variant of set_time: the difference is taken the other way round.
set_time_Reversed(b, timeStamp) ==
    [b EXCEPT !.elapsedTime = b.time0 - timeStamp]

\* Ball.set_time(timeStamp)
set_time(b, timeStamp) == [b EXCEPT !.elapsedTime = timeStamp - b.time0]

\* ----------------------------------------------------------- _find_match
\* Initial value of the running minimum in _find_match.
MIN_INIT == 5000

\* Value of a local that was never assigned (closest_ball); reading it at
\* the return statement raises UnboundLocalError.  Valid indices are >= 1.
Unbound == 0

\* Returned by _find_match on an empty list.
NoMatch == -1

\* (c[0] - p[0]) ** 2 + (c[1] - p[1]) ** 2, the argument of np.sqrt.
DistSq(c, p) == (c[1] - p[1]) * (c[1] - p[1]) + (c[2] - p[2]) * (c[2] - p[2])

\* Variant of ScanCenters: the running minimum is not lowered when a
\* closer centre is found.
RECURSIVE ScanCenters_MinKept(_, _, _, _, _)
ScanCenters_MinKept(ball, ball_centers, i, minSq, closest_ball) ==
    IF i > Len(ball_centers) THEN closest_ball
    ELSE LET n == DistSq(ball_centers[i], ball.position) IN
         IF n < minSq
         THEN ScanCenters_MinKept(ball, ball_centers, i + 1, minSq, i)
         ELSE ScanCenters_MinKept(ball, ball_centers, i + 1, minSq,
                                  closest_ball)

\* The loop of _find_match from index i on.  The running minimum is kept as
\* its square: np.sqrt is strictly increasing on the integers that occur, so
\* sqrt(d) < min  iff  d < min ** 2.
RECURSIVE ScanCenters(_, _, _, _, _)
ScanCenters(ball, ball_centers, i, minSq, closest_ball) ==
    IF i > Len(ball_centers) THEN closest_ball
    ELSE LET n == DistSq(ball_centers[i], ball.position) IN
         IF n < minSq
         THEN ScanCenters(ball, ball_centers, i + 1, n, i)
         ELSE ScanCenters(ball, ball_centers, i + 1, minSq, closest_ball)

\* Variant of _find_match: the empty list is scanned like any other.
_find_match_NoEmptyCheck(ball, ball_centers) ==
    ScanCenters(ball, ball_centers, 1, MIN_INIT * MIN_INIT, Unbound)

\* TerrainBalls._find_match: NoMatch on an empty list, otherwise the index of
\* the closest centre, or Unbound when no distance is below MIN_INIT.
_find_match(ball, ball_centers) ==
    IF Len(ball_centers) = 0 THEN NoMatch
    ELSE ScanCenters(ball, ball_centers, 1, MIN_INIT * MIN_INIT, Unbound)

\* list.pop(k)
Pop(s, k) == [j \in 1..(Len(s) - 1) |-> IF j < k THEN s[j] ELSE s[j + 1]]

\* --------------------------------------------------------- _detect_balls
\* Variant of MatchLoop: the matched centre is popped but not stored.
RECURSIVE MatchLoop_NoSetPosition(_, _, _)
MatchLoop_NoSetPosition(i, nb, st) ==
    IF i > nb THEN st
    ELSE LET k == _find_match(st.balls[i], st.ball_centers) IN
         IF k = Unbound
         THEN [st EXCEPT !.ks = Append(@, k), !.raised = TRUE]
         ELSE IF k # NoMatch
         THEN MatchLoop_NoSetPosition(i + 1, nb,
                  [st EXCEPT !.ball_centers = Pop(@, k), !.ks = Append(@, k)])
         ELSE MatchLoop_NoSetPosition(i + 1, nb, [st EXCEPT !.ks = Append(@, k)])

\* "Filter the balls": for i in range(self.nb_balls), from index i on.
\* st = [balls, ball_centers, ks, raised].
RECURSIVE MatchLoop(_, _, _)
MatchLoop(i, nb, st) ==
    IF i > nb THEN st
    ELSE LET k == _find_match(st.balls[i], st.ball_centers) IN
         IF k = Unbound
         THEN [st EXCEPT !.ks = Append(@, k), !.raised = TRUE]
         ELSE IF k # NoMatch
         THEN MatchLoop(i + 1, nb,
                  [st EXCEPT
                     !.balls[i] = set_position(@, st.ball_centers[k]),
                     !.ball_centers = Pop(@, k),
                     !.ks = Append(@, k)])
         ELSE MatchLoop(i + 1, nb, [st EXCEPT !.ks = Append(@, k)])

\* Variant of AddLoop: the new ball gets the loop index as its id.
RECURSIVE AddLoop_IdFromIndex(_, _, _, _, _)
AddLoop_IdFromIndex(j, bs, nb, t, ball_centers) ==
    IF j > Len(ball_centers) THEN [balls |-> bs, nb_balls |-> nb]
    ELSE AddLoop_IdFromIndex(j + 1, Append(bs, Ball(j, t, ball_centers[j])),
                             nb + 1, t, ball_centers)

\* "Add balls to the final list": for j in range(len(ball_centers)), from j on.
RECURSIVE AddLoop(_, _, _, _, _)
AddLoop(j, bs, nb, t, ball_centers) ==
    IF j > Len(ball_centers) THEN [balls |-> bs, nb_balls |-> nb]
    ELSE AddLoop(j + 1, Append(bs, Ball(nb + 1, t, ball_centers[j])),
                 nb + 1, t, ball_centers)

\* Variant of AddBalls: balls beyond the number of detections are dropped.
AddBalls_DropUnmatched(bs, nb, n, t, ball_centers) ==
    IF nb < n THEN AddLoop(1, bs, nb, t, ball_centers)
    ELSE [balls |-> SubSeq(bs, 1, n), nb_balls |-> n]

\* if self.nb_balls < n: ...
AddBalls(bs, nb, n, t, ball_centers) ==
    IF nb < n THEN AddLoop(1, bs, nb, t, ball_centers)
    ELSE [balls |-> bs, nb_balls |-> nb]

\* Variant of SetTimes: no ball is given the frame timestamp.
SetTimes_Unchanged(bs, t) == bs

\* for b in self.balls: b.set_time(self.time)
SetTimes(bs, t) == [i \in 1..Len(bs) |-> set_time(bs[i], t)]

\* Variant of _detect_balls: n is taken after the matching loop has popped
\* the claimed centres.
_detect_balls_CountAfterMatch(bs, nb, t, ball_centers) ==
    LET m == MatchLoop(1, nb, [balls |-> bs, ball_centers |-> ball_centers,
                               ks |-> <<>>, raised |-> FALSE])
        n == Len(m.ball_centers)
    IN  IF m.raised
        THEN [balls |-> m.balls, nb_balls |-> nb, ks |-> m.ks,
              pool |-> m.ball_centers, raised |-> TRUE]
        ELSE LET a == AddBalls(m.balls, nb, n, t, m.ball_centers) IN
             [balls |-> SetTimes(a.balls, t), nb_balls |-> a.nb_balls,
              ks |-> m.ks, pool |-> m.ball_centers, raised |-> FALSE]

\* TerrainBalls._detect_balls on the centres of one frame: the state it
\* leaves behind, whether it returns or raises.
_detect_balls(bs, nb, t, ball_centers) ==
    LET n == Len(ball_centers)
        m == MatchLoop(1, nb, [balls |-> bs, ball_centers |-> ball_centers,
                               ks |-> <<>>, raised |-> FALSE])
    IN  IF m.raised
        THEN [balls |-> m.balls, nb_balls |-> nb, ks |-> m.ks,
              pool |-> m.ball_centers, raised |-> TRUE]
        ELSE LET a == AddBalls(m.balls, nb, n, t, m.ball_centers) IN
             [balls |-> SetTimes(a.balls, t), nb_balls |-> a.nb_balls,
              ks |-> m.ks, pool |-> m.ball_centers, raised |-> FALSE]

\* TerrainBalls._update(img, timeStamp): one camera frame.
\*
\* prev, frame, ks and pool are history variables.  To keep the state graph
\* small they are filled in for one update of a behaviour, chosen freely
\* (observe), and the behaviour is cut there.  Every update of every run of
\* the program is the observed one of some behaviour, so an invariant of the
\* form  observed => P(prev, frame, ks, pool, balls)  speaks of every update.
_update(ball_centers, timeStamp, observe) ==
    /\ \E r \in { _detect_balls(balls, nb_balls, timeStamp, ball_centers) } :
       /\ time' = timeStamp
       /\ balls' = r.balls
       /\ nb_balls' = r.nb_balls
       /\ raised' = r.raised
       /\ stale' = (stale \/ \E i \in 1..Len(r.ks) : r.ks[i] = NoMatch)
       /\ max_n' = IF Len(ball_centers) > max_n THEN Len(ball_centers) ELSE max_n
       /\ observed' = observe
       /\ prev' = IF observe THEN balls ELSE <<>>
       /\ frame' = IF observe THEN ball_centers ELSE <<>>
       /\ ks' = IF observe THEN r.ks ELSE <<>>
       /\ pool' = IF observe THEN r.pool ELSE <<>>

\* TerrainBalls(0)
InitBalls ==
    /\ balls = <<>>
    /\ nb_balls = 0
    /\ time = 0
    /\ raised = FALSE
    /\ stale = FALSE
    /\ max_n = 0
    /\ observed = FALSE
    /\ prev = <<>>
    /\ frame = <<>>
    /\ ks = <<>>
    /\ pool = <<>>

\* rclpy.spin: the camera delivers frames with time stamps that never
\* decrease.  An exception leaves the callback and rclpy.spin, so no later
\* frame is processed.
BallsFrame ==
    /\ ~raised
    /\ ~observed
    /\ \E ball_centers \in CenterLists, timeStamp \in time..MaxTime,
          observe \in BOOLEAN :
           _update(ball_centers, timeStamp, observe)

\* ===================================================== ball2.TerrainBalls
\* The tracker of ball2.py.  Its fields balls, nb_balls and time carry the
\* prefix b2_ here; b2_prev and b2_frame are history variables of the
\* observed update, as prev and frame above.
VARIABLES
    b2_balls,       \* self.balls
    b2_nb_balls,    \* self.nb_balls
    b2_time,        \* self.time
    b2_raised,      \* TRUE once detect_balls has raised UnboundLocalError
    b2_observed,    \* TRUE once the observed update has been made
    b2_prev,        \* self.balls on entry to the observed update
    b2_frame        \* ball_centers of the observed update

ball2Vars == <<b2_balls, b2_nb_balls, b2_time, b2_raised, b2_observed, b2_prev,
               b2_frame>>

\* Ball.get_new_position(X)
get_new_position(b, X) == [b EXCEPT !.position = X]

\* Ball.get_new_time(timeStamp)
get_new_time(b, timeStamp) == [b EXCEPT !.elapsedTime = timeStamp - b.time0]

\* TerrainBalls.findMatch: -1 on an empty list, otherwise the index of the
\* closest centre, or Unbound when no distance is below min = 5000.
findMatch(ball, ball_centers) ==
    IF Len(ball_centers) = 0 THEN NoMatch
    ELSE ScanCenters(ball, ball_centers, 1, MIN_INIT * MIN_INIT, Unbound)

\* The branch nb_balls == n: for i in range(self.nb_balls), from index i on.
\* st = [balls, ball_centers, raised].
RECURSIVE MatchAll(_, _, _)
MatchAll(i, nb, st) ==
    IF i > nb THEN st
    ELSE LET k == findMatch(st.balls[i], st.ball_centers) IN
         IF k = Unbound
         THEN [st EXCEPT !.raised = TRUE]
         ELSE IF k # NoMatch
         THEN MatchAll(i + 1, nb,
                  [st EXCEPT
                     !.balls[i] = get_new_position(@, st.ball_centers[k]),
                     !.ball_centers = Pop(@, k)])
         ELSE MatchAll(i + 1, nb, st)

\* The branch nb_balls < n: for j in range(len(ball_centers)), from index j
\* on; every centre of the frame gets a new ball.
RECURSIVE AppendAll(_, _, _, _, _)
AppendAll(j, bs, nb, t, ball_centers) ==
    IF j > Len(ball_centers) THEN [balls |-> bs, nb_balls |-> nb]
    ELSE AppendAll(j + 1, Append(bs, Ball(nb + 1, t, ball_centers[j])),
                   nb + 1, t, ball_centers)

\* TerrainBalls.detect_balls of ball2.py on the centres of one frame.
detect_balls(bs, nb, t, ball_centers) ==
    LET n == Len(ball_centers) IN
    IF nb = n
    THEN LET m == MatchAll(1, nb, [balls |-> bs, ball_centers |-> ball_centers,
                                   raised |-> FALSE])
         IN  IF m.raised
             THEN [balls |-> m.balls, nb_balls |-> nb, raised |-> TRUE]
             ELSE [balls |-> [i \in 1..Len(m.balls) |->
                                get_new_time(m.balls[i], t)],
                   nb_balls |-> nb, raised |-> FALSE]
    ELSE LET a == IF nb < n THEN AppendAll(1, bs, nb, t, ball_centers)
                            ELSE [balls |-> bs, nb_balls |-> nb]
         IN  [balls |-> [i \in 1..Len(a.balls) |-> get_new_time(a.balls[i], t)],
              nb_balls |-> a.nb_balls, raised |-> FALSE]

\* TerrainBalls.update(img, timeStamp) of ball2.py: one camera frame.
update(ball_centers, timeStamp, observe) ==
    /\ \E r \in { detect_balls(b2_balls, b2_nb_balls, timeStamp, ball_centers) } :
       /\ b2_time' = timeStamp
       /\ b2_balls' = r.balls
       /\ b2_nb_balls' = r.nb_balls
       /\ b2_raised' = r.raised
       /\ b2_observed' = observe
       /\ b2_prev' = IF observe THEN b2_balls ELSE <<>>
       /\ b2_frame' = IF observe THEN ball_centers ELSE <<>>

\* t = TerrainBalls(0)
InitBalls2 ==
    /\ b2_balls = <<>>
    /\ b2_nb_balls = 0
    /\ b2_time = 0
    /\ b2_raised = FALSE
    /\ b2_observed = FALSE
    /\ b2_prev = <<>>
    /\ b2_frame = <<>>

\* rclpy.spin(self.Camera): frames with time stamps that never decrease; an
\* exception ends the spinning.
Balls2Frame ==
    /\ ~b2_raised
    /\ ~b2_observed
    /\ \E ball_centers \in CenterLists, timeStamp \in b2_time..MaxTime,
          observe \in BOOLEAN :
           update(ball_centers, timeStamp, observe)

\* ============================================================ RobotDetector
\* Largest number of contours found in one marker mask.
MaxContours == 2

\* Centres (cx, cy) of the minimal enclosing circles of marker contours.
\* They include the marker positions of the specification's heading examples;
\* every difference of two of them lies on an axis or a diagonal.
MarkerPoints == { <<0, 0>>, <<10, 0>>, <<0, -10>> }

\* A contour is represented by the centre of its minimal enclosing circle;
\* cv.findContours returns a list of them.
ContourLists == UNION { [1..n -> MarkerPoints] : n \in 0..MaxContours }

\* Python None, and a value that is not None.
None == <<>>
Some(v) == <<v>>
Val(x) == x[1]

VARIABLES
    _position,      \* RobotDetector._position
    _heading,       \* RobotDetector._heading, in units of pi/4
    _timestamp,     \* RobotDetector._timestamp
    cb_last,        \* arguments of the last call of data_updated_callback, or None
    cam_stamp,      \* time stamp of the last frame the camera delivered
    seen,           \* TRUE when the variables below describe the last callback
    img,            \* that frame: contours of the front and rear mask, time stamp
    front_m_pos,    \* local front_m_pos of that callback
    rear_m_pos,     \* local rear_m_pos of that callback
    pose0,          \* _position, _heading, _timestamp on entry of that callback
    cb_calls        \* calls of data_updated_callback made by that callback

robotVars == <<_position, _heading, _timestamp, cb_last, cam_stamp, seen, img,
               front_m_pos, rear_m_pos, pose0, cb_calls>>

vars == <<ballVars, ball2Vars, robotVars>>

\* np.arctan2(y, x) in units of pi/4, for arguments on an axis or a diagonal
\* (x = 0, y = 0 or |x| = |y|); np.arctan2(0, 0) is 0.
arctan2(y, x) ==
    IF y = 0 THEN (IF x < 0 THEN 4 ELSE 0)
    ELSE IF y > 0 THEN (IF x > 0 THEN 1 ELSE IF x = 0 THEN 2 ELSE 3)
    ELSE (IF x > 0 THEN -1 ELSE IF x = 0 THEN -2 ELSE -3)

\* Variant of _detect_marker: the first contour is used whenever there is one.
_detect_marker_FirstOfMany(contours) ==
    LET n_contours == Len(contours) IN
    IF n_contours >= 1
    THEN LET cnt == contours[1] IN <<Some(cnt[1]), Some(cnt[2])>>
    ELSE <<None, None>>

\* RobotDetector._detect_marker on the contours found in one mask.
_detect_marker(contours) ==
    LET n_contours == Len(contours) IN
    IF n_contours = 1
    THEN LET cnt == contours[1] IN <<Some(cnt[1]), Some(cnt[2])>>
    ELSE <<None, None>>

\* if (front_m_pos[0] is not None and rear_m_pos[0] is not None)
BothDetected(front, rear) == front[1] # None /\ rear[1] # None

\* Variant of NewPose: the arguments of np.arctan2 are exchanged.
NewPose_SwappedArgs(front, rear, timestamp) ==
    [heading |-> arctan2(Val(front[1]) - Val(rear[1]),
                         Val(front[2]) - Val(rear[2])),
     position |-> <<Val(rear[1]), Val(rear[2])>>,
     timestamp |-> timestamp]

\* The pose assigned when both markers are detected (lines 81-84).
NewPose(front, rear, timestamp) ==
    [heading |-> arctan2(Val(front[2]) - Val(rear[2]),
                         Val(front[1]) - Val(rear[1])),
     position |-> <<Val(rear[1]), Val(rear[2])>>,
     timestamp |-> timestamp]

\* Variant of PoseUpdate: the time stamp is stored for every frame.
PoseUpdate_StampAlways(pose, front, rear, timestamp) ==
    IF BothDetected(front, rear)
    THEN LET p == NewPose(front, rear, timestamp) IN
         [pose |-> p, calls |-> << <<p.position, p.heading, p.timestamp>> >>]
    ELSE [pose |-> [pose EXCEPT !.timestamp = timestamp], calls |-> <<>>]

\* Variant of PoseUpdate: data_updated_callback is called for every frame.
PoseUpdate_CallAlways(pose, front, rear, timestamp) ==
    IF BothDetected(front, rear)
    THEN LET p == NewPose(front, rear, timestamp) IN
         [pose |-> p, calls |-> << <<p.position, p.heading, p.timestamp>> >>]
    ELSE [pose |-> pose,
          calls |-> << <<pose.position, pose.heading, pose.timestamp>> >>]

\* Lines 80-87: the stored pose after the frame and the calls of
\* data_updated_callback made, given the stored pose before and the two
\* detection results.
PoseUpdate(pose, front, rear, timestamp) ==
    IF BothDetected(front, rear)
    THEN LET p == NewPose(front, rear, timestamp) IN
         [pose |-> p, calls |-> << <<p.position, p.heading, p.timestamp>> >>]
    ELSE [pose |-> pose, calls |-> <<>>]

\* RobotDetector._camera_data_updated_callback(img, timestamp).  As for the
\* tracker, the history variables are filled in for one callback of a
\* behaviour (observe), and the behaviour is cut there.
_camera_data_updated_callback(front_contours, rear_contours, timestamp, observe) ==
    /\ cam_stamp' = timestamp
    /\ \E front \in { _detect_marker(front_contours) },
          rear \in { _detect_marker(rear_contours) } :
       \E e \in { PoseUpdate([position |-> _position, heading |-> _heading,
                              timestamp |-> _timestamp],
                             front, rear, timestamp) } :
       /\ _heading' = e.pose.heading
       /\ _position' = e.pose.position
       /\ _timestamp' = e.pose.timestamp
       /\ cb_last' = IF Len(e.calls) > 0 THEN Some(e.calls[Len(e.calls)])
                     ELSE cb_last
       /\ cb_calls' = IF observe THEN Len(e.calls) ELSE 0
       /\ seen' = observe
       /\ img' = IF observe
                 THEN [front |-> front_contours, rear |-> rear_contours,
                       timestamp |-> timestamp]
                 ELSE [front |-> <<>>, rear |-> <<>>, timestamp |-> 0]
       /\ front_m_pos' = IF observe THEN front ELSE <<None, None>>
       /\ rear_m_pos' = IF observe THEN rear ELSE <<None, None>>
       /\ pose0' = IF observe THEN <<_position, _heading, _timestamp>>
                   ELSE <<<<0, 0>>, 0, 0>>

\* RobotDetector.get_heading()
get_heading == _heading

\* RobotDetector.get_position()
get_position == _position

\* RobotDetector(data_updated_callback)
InitRobot ==
    /\ _position = <<0, 0>>
    /\ _heading = 0
    /\ _timestamp = 0
    /\ cb_last = None
    /\ cam_stamp = 0
    /\ seen = FALSE
    /\ img = [front |-> <<>>, rear |-> <<>>, timestamp |-> 0]
    /\ front_m_pos = <<None, None>>
    /\ rear_m_pos = <<None, None>>
    /\ pose0 = <<<<0, 0>>, 0, 0>>
    /\ cb_calls = 0

\* rclpy.spin: the camera delivers frames with time stamps that never
\* decrease.
RobotFrame ==
    /\ ~seen
    /\ \E front_contours \in ContourLists, rear_contours \in ContourLists,
          timestamp \in cam_stamp..MaxTime, observe \in BOOLEAN :
           _camera_data_updated_callback(front_contours, rear_contours,
                                         timestamp, observe)

\* ========================================================== specifications
Init == InitBalls /\ InitBalls2 /\ InitRobot

NextBalls == BallsFrame /\ UNCHANGED <<ball2Vars, robotVars>>

NextBalls2 == Balls2Frame /\ UNCHANGED <<ballVars, robotVars>>

NextRobot == RobotFrame /\ UNCHANGED <<ballVars, ball2Vars>>

Next == NextBalls \/ NextBalls2 \/ NextRobot

\* The nodes together.
Spec == Init /\ [][Next]_vars

\* The ball tracker alone.
SpecBalls == Init /\ [][NextBalls]_vars

\* The ball tracker of ball2.py alone.
SpecBalls2 == Init /\ [][NextBalls2]_vars

\* The robot detector alone.
SpecRobot == Init /\ [][NextRobot]_vars

\* ================================================================== claims
\* Number of balls on entry of the observed update, and of its detections.
m0 == Len(prev)
n0 == Len(frame)

\* Balls that existed on entry and whose position is the same afterwards.
Unchanged == { i \in 1..m0 : balls[i].position = prev[i].position }

\* ball_centers when the matching loop reaches ball i of the observed update.
RECURSIVE PoolAt(_)
PoolAt(i) ==
    IF i = 1 THEN frame
    ELSE LET P == PoolAt(i - 1)
             k == IF i - 1 <= Len(ks) THEN ks[i - 1] ELSE NoMatch
         IN  IF k >= 1 THEN Pop(P, k) ELSE P

\* C1: the ids of the balls are strictly increasing in creation order and
\* start at 1; an update leaves the ids of the existing balls alone and gives
\* every new ball an id larger than all ids assigned before, also when some
\* ball went without a match earlier.
C1_IdsIncreasing ==
    /\ \A i, j \in 1..Len(balls) : i < j => balls[i].id < balls[j].id
    /\ Len(balls) > 0 => balls[1].id = 1
    /\ observed =>
         /\ Len(balls) >= m0
         /\ \A i \in 1..m0 : balls[i].id = prev[i].id
         /\ \A j \in (m0 + 1)..Len(balls) : \A i \in 1..m0 :
                balls[j].id > prev[i].id

\* C1 witness: after some ball went without a match, an update of a non-empty
\* list has created a ball.
C1_Witness ==
    /\ observed /\ stale /\ ~raised
    /\ m0 >= 1 /\ Len(balls) > m0
    /\ balls[Len(balls)].id = Len(balls)

\* C2 as claimed: with n > m exactly n - m balls are created, each at one of
\* the centres left after the matching loop; with n <= m none is created.
C2_GrowthExact ==
    observed =>
      /\ n0 > m0 =>
           /\ Len(balls) = m0 + (n0 - m0)
           /\ \A j \in (m0 + 1)..Len(balls) :
                \E q \in 1..Len(pool) : balls[j].position = pool[q]
      /\ n0 <= m0 => Len(balls) = m0

\* C3 as claimed: with n < m the list still has m balls and exactly m - n of
\* them have the position they had before.
C3_ExactlyUnchanged ==
    observed /\ n0 < m0 =>
      /\ Len(balls) = m0
      /\ Cardinality(Unchanged) = m0 - n0

\* C3 amended: no update removes a ball; with n < m the list still has m
\* balls and at least m - n of them have the position they had before.
C3_NoShrink ==
    observed =>
      /\ Len(balls) >= m0
      /\ n0 < m0 =>
           /\ Len(balls) = m0
           /\ Cardinality(Unchanged) >= m0 - n0

\* C3 witness: an update with 1 <= n < m in which a matched ball kept its
\* position, so that more than m - n positions are unchanged.
C3_Witness ==
    /\ observed /\ ~raised
    /\ 1 <= n0 /\ n0 < m0
    /\ Len(balls) = m0
    /\ Cardinality(Unchanged) > m0 - n0

\* C4 as claimed: the balls are processed in ascending id order and each
\* ball whose turn finds a centre left takes the nearest of the centres
\* left; the frames [], [(5,5)], [(6,5),(50,50)] give no ball, then ball 1
\* at (5,5), then ball 1 at (6,5) and ball 2 at (50,50).
C4_NearestInIdOrder ==
    observed =>
      /\ \A i \in 1..m0 :
           LET P == PoolAt(i) IN
           Len(P) > 0 =>
             \E k \in 1..Len(P) :
               /\ balls[i].position = P[k]
               /\ \A j \in 1..Len(P) :
                    DistSq(P[k], prev[i].position) <= DistSq(P[j], prev[i].position)
      /\ (prev = <<>> /\ frame = <<>>) => balls = <<>>
      /\ (prev = <<>> /\ frame = << <<5, 5>> >>) =>
           /\ Len(balls) = 1
           /\ balls[1].id = 1 /\ balls[1].position = <<5, 5>>
      /\ ( /\ m0 = 1 /\ prev[1].id = 1 /\ prev[1].position = <<5, 5>>
           /\ frame = << <<6, 5>>, <<50, 50>> >> ) =>
           /\ Len(balls) = 2
           /\ balls[1].id = 1 /\ balls[1].position = <<6, 5>>
           /\ balls[2].id = 2 /\ balls[2].position = <<50, 50>>

\* C5: one ball, one detection less than MIN_INIT pixels away from it: after
\* the update there is still one ball, with the same id, at the detection.
C5_IdentityStable ==
    ( /\ observed /\ m0 = 1 /\ n0 = 1
      /\ DistSq(frame[1], prev[1].position) < MIN_INIT * MIN_INIT ) =>
      /\ ~raised
      /\ Len(balls) = 1
      /\ balls[1].id = prev[1].id
      /\ balls[1].position = frame[1]

\* C5 witness: ball 1 at (5,5) has followed its detection to (6,5).
C5_Witness ==
    /\ observed /\ m0 = 1
    /\ prev[1].position = <<5, 5>> /\ frame = << <<6, 5>> >>
    /\ Len(balls) = 1 /\ balls[1].id = 1 /\ balls[1].position = <<6, 5>>

\* C8 as claimed: no update raises an exception, whatever the balls and the
\* detections of the frame are.
C8_NeverRaises == observed => ~raised

\* C11 as claimed: there is no distance gate: every ball whose turn finds
\* the pool of unclaimed centres non-empty is matched to a centre of the
\* pool, at whatever distance.
C11_NoDistanceGate ==
    observed =>
      \A i \in 1..m0 :
        LET P == PoolAt(i) IN
        Len(P) > 0 =>
          /\ i <= Len(ks)
          /\ ks[i] \in 1..Len(P)
          /\ balls[i].position = P[ks[i]]

\* The detection returned a point / the not-found value.
Found(res) == res[1] # None /\ res[2] # None
NotFound(res) == res = <<None, None>>

\* C6: a frame in which the front marker is detected and the rear is not, or
\* the rear and not the front, or neither, leaves the stored position,
\* heading and time stamp as they were and makes no call of
\* data_updated_callback.
C6_PartialDetectionKeepsPose ==
    (seen /\ ~(Found(front_m_pos) /\ Found(rear_m_pos))) =>
      /\ <<_position, _heading, _timestamp>> = pose0
      /\ cb_calls = 0

\* C6 witness: after a pose was published, a later frame shows the front
\* marker only, and the published pose is still the stored one.
C6_Witness ==
    /\ seen /\ Found(front_m_pos) /\ NotFound(rear_m_pos)
    /\ cb_last # None
    /\ pose0 # <<<<0, 0>>, 0, 0>>
    /\ img.timestamp > _timestamp
    /\ <<_position, _heading, _timestamp>> = pose0

\* C7: a frame with both markers detected stores the rear marker's point as
\* position, the frame's time stamp, and atan2(front.y - rear.y,
\* front.x - rear.x) as heading: 0 for front (10,0), rear (0,0) and -pi/2
\* (-2 quarters of pi) for front (0,-10), rear (0,0).
C7_PoseFromMarkers ==
    (seen /\ Found(front_m_pos) /\ Found(rear_m_pos)) =>
      LET fx == Val(front_m_pos[1])  fy == Val(front_m_pos[2])
          rx == Val(rear_m_pos[1])   ry == Val(rear_m_pos[2])
      IN  /\ _position = <<rx, ry>>
          /\ _timestamp = img.timestamp
          /\ _heading = arctan2(fy - ry, fx - rx)
          /\ (<<fx, fy>> = <<10, 0>> /\ <<rx, ry>> = <<0, 0>>) => _heading = 0
          /\ (<<fx, fy>> = <<0, -10>> /\ <<rx, ry>> = <<0, 0>>) => _heading = -2

\* C7 witness: front (0,-10) and rear (0,0) seen in a frame stamped later
\* than 0: heading -pi/2, position (0,0).
C7_Witness ==
    /\ seen /\ img.timestamp > 0
    /\ front_m_pos = <<Some(0), Some(-10)>> /\ rear_m_pos = <<Some(0), Some(0)>>
    /\ _heading = -2 /\ _position = <<0, 0>> /\ _timestamp = img.timestamp

\* C9: _detect_marker returns a point exactly when the mask has one contour
\* (the centre of that contour's enclosing circle); with no contour or with
\* two or more it returns (None, None).
C9_SingleContourOnly ==
    seen =>
      /\ Len(img.front) = 1 =>
           front_m_pos = <<Some(img.front[1][1]), Some(img.front[1][2])>>
      /\ Len(img.front) # 1 => NotFound(front_m_pos)
      /\ Len(img.rear) = 1 =>
           rear_m_pos = <<Some(img.rear[1][1]), Some(img.rear[1][2])>>
      /\ Len(img.rear) # 1 => NotFound(rear_m_pos)

\* C9 witness: two contours in the front mask give (None, None) while the
\* single contour of the rear mask gives its centre.
C9_Witness ==
    /\ seen /\ Len(img.front) >= 2 /\ NotFound(front_m_pos)
    /\ Len(img.rear) = 1 /\ Found(rear_m_pos)

\* C10: data_updated_callback is called once in a frame with exactly one
\* contour in each mask and not at all in any other frame; the arguments of
\* the last call are the stored position, heading and time stamp, and they
\* are what get_position and get_heading return until the next call.
C10_CallbackOncePerDualFrame ==
    /\ seen =>
         cb_calls = (IF Len(img.front) = 1 /\ Len(img.rear) = 1 THEN 1 ELSE 0)
    /\ (seen /\ cb_calls = 1) => Val(cb_last)[3] = img.timestamp
    /\ cb_last # None =>
         /\ Val(cb_last) = <<_position, _heading, _timestamp>>
         /\ get_position = Val(cb_last)[1]
         /\ get_heading = Val(cb_last)[2]
    /\ cb_last = None =>
         <<_position, _heading, _timestamp>> = <<<<0, 0>>, 0, 0>>

\* C10 witness: a frame without both markers, processed after a pose was
\* published by an earlier frame; the accessors return the published values.
C10_Witness ==
    /\ seen /\ cb_calls = 0 /\ cb_last # None
    /\ img.timestamp > Val(cb_last)[3]
    /\ get_position = Val(cb_last)[1] /\ get_heading = Val(cb_last)[2]
    /\ get_position # <<0, 0>>

\* ------------------------------------------------------- claims C12 - C20
\* time0 + elapsedTime of a ball: the last frame timestamp given to it.
lastSeenAt(b) == b.time0 + b.elapsedTime

\* The ball's turn in the observed update found the pool empty.
Unmatched(i) == i <= Len(ks) /\ ks[i] = NoMatch

\* The ball claimed a centre in the observed update.
Matched(i) == i <= Len(ks) /\ ks[i] >= 1

\* C12 as claimed: lastSeenAt is advanced only in a frame in which the ball
\* claims a detection; a ball left unmatched because the pool is exhausted
\* keeps its previous lastSeenAt and its previous position.
C12_LastSeenOnlyOnMatch ==
    observed =>
      \A i \in 1..m0 :
        /\ lastSeenAt(balls[i]) # lastSeenAt(prev[i]) => Matched(i)
        /\ Unmatched(i) => /\ lastSeenAt(balls[i]) = lastSeenAt(prev[i])
                           /\ balls[i].position = prev[i].position

\* C12 amended: an update that returns advances lastSeenAt of every ball,
\* matched or not, to the frame timestamp; an update that raises advances
\* none; a ball left unmatched because the pool is exhausted keeps its
\* previous position.
C12_LastSeenEveryFrame ==
    observed =>
      /\ ~raised => \A i \in 1..Len(balls) : lastSeenAt(balls[i]) = time
      /\ raised => \A i \in 1..m0 : lastSeenAt(balls[i]) = lastSeenAt(prev[i])
      /\ \A i \in 1..m0 : Unmatched(i) => balls[i].position = prev[i].position

\* An unmatched ball whose lastSeenAt moved to a later frame timestamp.
C12_Witness ==
    /\ observed
    /\ ~raised
    /\ \E i \in 1..m0 :
         /\ Unmatched(i)
         /\ lastSeenAt(prev[i]) < time
         /\ lastSeenAt(balls[i]) = time
         /\ balls[i].position = prev[i].position

\* C13: with frame timestamps that never decrease, elapsedTime of every
\* ball is >= 0 in every state and does not decrease over an update, and a
\* ball created by an update has time0 and lastSeenAt equal to the frame
\* timestamp (elapsedTime 0) when the update ends.
C13_ElapsedMonotone ==
    /\ \A i \in 1..Len(balls) : balls[i].elapsedTime >= 0
    /\ observed =>
         /\ \A i \in 1..m0 : balls[i].elapsedTime >= prev[i].elapsedTime
         /\ \A i \in (m0 + 1)..Len(balls) :
              /\ balls[i].time0 = time
              /\ lastSeenAt(balls[i]) = time
              /\ balls[i].elapsedTime = 0

\* An update at a later timestamp that both ages an old ball and creates a
\* new one.
C13_Witness ==
    /\ observed
    /\ m0 >= 1
    /\ Len(balls) > m0
    /\ balls[1].elapsedTime > prev[1].elapsedTime
    /\ balls[Len(balls)].time0 = time
    /\ balls[Len(balls)].elapsedTime = 0

\* Number of occurrences of point p in a list of points.
Count(points, p) == Cardinality({ i \in 1..Len(points) : points[i] = p })

\* Positions of the balls after the observed update, in list order.
PositionsAfter == [i \in 1..Len(balls) |-> balls[i].position]

\* C14 as claimed: in an update with n = m >= 1 every ball claims exactly
\* one centre and every centre is claimed by exactly one ball, so the
\* multiset of positions after the update is the multiset of the frame's
\* centres, and no ball is created.
C14_PerfectMatching ==
    (observed /\ n0 = m0 /\ m0 >= 1) =>
      /\ Len(balls) = m0
      /\ \A i \in 1..m0 : Matched(i)
      /\ pool = <<>>
      /\ \A p \in Points : Count(PositionsAfter, p) = Count(frame, p)

\* Indices of the centres of pool P that are at the minimum distance of P
\* from position p.
Nearest(P, p) ==
    { j \in 1..Len(P) :
        \A l \in 1..Len(P) : DistSq(P[j], p) <= DistSq(P[l], p) }

\* C15 as claimed: a ball whose turn finds two or more unclaimed centres
\* at the same minimum distance claims the one of them with the lowest index
\* in the remaining pool.
C15_TieLowestIndex ==
    observed =>
      \A i \in 1..Len(ks) :
        LET T == Nearest(PoolAt(i), prev[i].position) IN
        Cardinality(T) >= 2 =>
          /\ ks[i] \in T
          /\ \A j \in T : ks[i] <= j
          /\ balls[i].position = PoolAt(i)[ks[i]]

\* C16: an update with an empty detection list returns, creates no ball
\* and matches no ball: the number of balls and the id, time0 and position
\* of every ball are as before; an empty first frame leaves 0 balls.
C16_EmptyFrameNoChange ==
    (observed /\ n0 = 0) =>
      /\ ~raised
      /\ Len(balls) = m0
      /\ nb_balls = m0
      /\ Len(ks) = m0
      /\ \A i \in 1..m0 :
           /\ Unmatched(i)
           /\ balls[i].id = prev[i].id
           /\ balls[i].time0 = prev[i].time0
           /\ balls[i].position = prev[i].position
      /\ (m0 = 0 => balls = <<>>)

\* An empty frame arriving at a later timestamp while balls exist.
C16_Witness ==
    /\ observed
    /\ n0 = 0
    /\ m0 >= 1
    /\ Len(balls) = m0
    /\ time > prev[1].time0
    /\ balls[1].position = prev[1].position

\* C17 as claimed: in the tracker of ball2.py an update with m balls and
\* n > m detections creates exactly n - m balls, one per detection left
\* unclaimed once the existing balls are matched, so that the positions after
\* the update are the detections of the frame.
C17_Ball2GrowthExact ==
    (b2_observed /\ Len(b2_prev) < Len(b2_frame)) =>
      /\ Len(b2_balls) - Len(b2_prev) = Len(b2_frame) - Len(b2_prev)
      /\ b2_nb_balls = Len(b2_frame)
      /\ \A p \in Points :
           Count([i \in 1..Len(b2_balls) |-> b2_balls[i].position], p)
             = Count(b2_frame, p)

\* Largest r in lo..hi with r * r <= x.
RECURSIVE FloorSqrtIn(_, _, _)
FloorSqrtIn(x, lo, hi) ==
    IF lo >= hi THEN lo
    ELSE LET mid == (lo + hi + 1) \div 2 IN
         IF mid * mid <= x THEN FloorSqrtIn(x, mid, hi)
         ELSE FloorSqrtIn(x, lo, mid - 1)

Abs(x) == IF x < 0 THEN -x ELSE x

\* Integer bounds of the Euclidean distance between points c and p:
\* DistLow(c, p) <= np.sqrt(DistSq(c, p)) <= DistHigh(c, p).
DistLow(c, p) ==
    FloorSqrtIn(DistSq(c, p), 0, Abs(c[1] - p[1]) + Abs(c[2] - p[2]))

DistHigh(c, p) ==
    LET r == DistLow(c, p) IN IF r * r = DistSq(c, p) THEN r ELSE r + 1

\* Sum of f[1], ..., f[n].
RECURSIVE Sum(_, _)
Sum(f, n) == IF n = 0 THEN 0 ELSE f[n] + Sum(f, n - 1)

\* One-to-one assignments of n detections to n balls.
Assignments(n) ==
    { f \in [1..n -> 1..n] : \A i, j \in 1..n : i # j => f[i] # f[j] }

\* C18: the matching is greedy: each ball that claims a centre claims one
\* that is nearest to it among the centres still unclaimed at its turn, in
\* list order, whatever that leaves for the later balls.  That the result is
\* not optimal is the reachable state C18_Witness.
C18_GreedyNearestRemaining ==
    observed =>
      \A i \in 1..Len(ks) :
        Matched(i) =>
          /\ ks[i] \in Nearest(PoolAt(i), prev[i].position)
          /\ balls[i].position = PoolAt(i)[ks[i]]

\* An update in which every ball claims a detection and the total
\* displacement of the assignment made is strictly greater than that of
\* another one-to-one assignment of the same detections to the same balls.
C18_Witness ==
    /\ observed
    /\ ~raised
    /\ m0 >= 2
    /\ n0 = m0
    /\ \A i \in 1..m0 : Matched(i)
    /\ \E f \in Assignments(m0) :
         Sum([i \in 1..m0 |-> DistLow(balls[i].position, prev[i].position)], m0)
           > Sum([i \in 1..m0 |-> DistHigh(frame[f[i]], prev[i].position)], m0)

\* C19: nb_balls is the length of balls and the ball at list index i
\* (counted from 0) has id i + 1 in every state; as long as no update has
\* raised, which is so in particular while every ball-to-centre distance is
\* below 5000, the number of balls is the largest number of detections of
\* any single frame so far.
C19_CountIsMaxDetections ==
    /\ nb_balls = Len(balls)
    /\ \A i \in 1..Len(balls) : balls[i].id = i
    /\ ~raised => Len(balls) = max_n

\* Two balls after a frame of two detections, and a later frame with fewer
\* detections that left a ball unmatched.
C19_Witness ==
    /\ observed
    /\ ~raised
    /\ m0 >= 2
    /\ n0 < m0
    /\ max_n = m0
    /\ Len(balls) = m0
    /\ balls[m0].id = m0

\* C20 as claimed: in an update with n < m detections the balls left
\* without a claim are exactly the m - n balls with the highest ids, whatever
\* the positions are, and the ball with id m keeps its position.
C20_HighestIdsUnmatched ==
    (observed /\ n0 < m0) =>
      /\ { i \in 1..m0 : ~Matched(i) } = (n0 + 1)..m0
      /\ \A i \in (n0 + 1)..m0 : balls[i].position = prev[i].position

=============================================================================
